---- MODULE Spec2Model ----
(***************************************************************************)
(* Tick-driven timer scheduler of heap_prio_queue: the intrusive priority  *)
(* queue (priority_queue.c) and the timer module built on it (timer.c).    *)
(*                                                                         *)
(* Nodes are embedded in timers (CONTAINER_OF), so a timer and its         *)
(* heap_node are the same index here.  Pointers are indices, NULL is 0.    *)
(* A dereference of NULL and a loop that never exits end the run: they are *)
(* recorded in `fault` and no operation is enabled afterwards.             *)
(*                                                                         *)
(* The header-only buffers of the repository are modelled beside it: the   *)
(* ping-pong buffer (ping_pong_buffer.h), the ring buffer (ring_buffer.h)  *)
(* and the fixed-size message queue (fixed_message_queue.h).  Each         *)
(* specification below drives one component and leaves the others alone.   *)
(***************************************************************************)
EXTENDS Integers, Sequences, FiniteSets, TLC

\* ---- bounds of the model ------------------------------------------------
NumTimers == 2          \* timers the caller owns
MaxDelay  == 2          \* largest `ticks` argument of timer_start/timer_set_period
MaxTime   == 4          \* timer_increment_tick is called at most this often
MaxQueueCalls == 4      \* calls made on the queue over every node (SpecNodes)
MaxCalls  == 3          \* calls other than timer_increment_tick, where budgeted
PpbSize   == 2          \* bytes in each of the two ping-pong buffers
MaxByte   == 1          \* bytes are 0..MaxByte
MaxStream == 3           \* longest stream given to ring_buffer_copy_from_stream
MaxRbSize == 5          \* largest `size` given to ring_buffer_init
MaxSlots  == 4          \* largest `slots` of a message queue
MaxMsgSize == 2         \* largest message_size of a message queue
NumListNodes == 3       \* struct list_node objects of the list's caller

NULL == 0
\* The value of storage that was never written (an uninitialised struct timer):
\* it stands for any pointer value, so nothing is known of a comparison with it.
UNINIT == -1

Timers  == 1..NumTimers
NodePtr == Timers \cup {NULL}
\* Every struct timer there is: the timers the timer calls are made on, and one
\* more whose node only the direct callers of the queue insert.
NumNodes == NumTimers + 1
Nodes   == 1..NumNodes
ListNodes == 1..NumListNodes
Delays  == 0..MaxDelay

VARIABLES
    global_ticks,       \* timer.c: static uint64_t global_ticks
    head, tail, root,   \* timer.c: static struct priority_queue timer_queue
    next, prev, parent, \* struct heap_node of every timer
    expiry, period,     \* struct timer fields
    fault,              \* "none", or how the program stopped
    \* -- observations of the calls, kept for the properties only --
    op,             \* the last call made: <<name, timer>>
    fired,          \* callbacks invoked by the last timer_increment_tick, in order:
                    \* <<timer, its status at the invocation, its expiry then>>
    status,         \* the caller's view of each timer: "idle" (never started),
                    \* "armed" (started, not stopped, not fired as one-shot),
                    \* "fired" (fired as one-shot), "stopped" (stopped while armed
                    \* and not yet due), "stopped_other" (any other timer_stop)
    last,           \* the most recent timer_start call and what followed it
    count,          \* callbacks per timer (kept by the README scenario only)
    calls,          \* calls made so far (kept where the calls are budgeted)
    compare,        \* timer_queue.compare
    ppb,            \* struct ping_pong_buffer, with the two byte arrays
    producer,       \* the caller of ping_pong_buffer_write: where it is, its data
    consumer,       \* the caller of ping_pong_buffer_read: where it is, its data
    rb,             \* struct ring_buffer, with the byte array it points to
    stored,         \* the bytes pushed and not yet popped, oldest first
    mq,             \* struct message_queue, with the byte array it points to
    queued,         \* the messages pushed and not yet popped, oldest first
    list,           \* struct list_head, with the struct list_node of every node
    linked          \* the nodes given to the list and not yet to list_remove

ppb_vars == <<ppb, producer, consumer>>
rb_vars  == <<rb, stored>>
mq_vars  == <<mq, queued>>
list_vars == <<list, linked>>

\* The buffer components, which share nothing with the queue and the timers.
buffers == <<ppb_vars, rb_vars, mq_vars, list_vars>>

\* What the timer module never touches after timer_module_init.
rest == <<compare, buffers>>

vars == <<global_ticks, head, tail, root, next, prev, parent, expiry, period,
          fault, op, fired, status, last, count, calls, rest>>

\* ---- priority_queue.c, over a record m of the whole memory --------------
\* m has the fields head, tail, root, next, prev, parent, expiry, fault and
\* the observation fields status, fired.

Fault(m, why) == [m EXCEPT !.fault = why]

timer_compare(m, a, b) ==
    (IF m.expiry[a] > m.expiry[b] THEN 1 ELSE 0)
  - (IF m.expiry[a] < m.expiry[b] THEN 1 ELSE 0)

\* *a and *b are exchanged, then the parents are patched.  A comparison that
\* reads a never-written parent has no known outcome: both parents are then
\* unknown (UNINIT) afterwards.
swap_nodes(m, a, b) ==
    LET s == [m EXCEPT !.next   = [@ EXCEPT ![a] = m.next[b],   ![b] = m.next[a]],
                       !.prev   = [@ EXCEPT ![a] = m.prev[b],   ![b] = m.prev[a]],
                       !.parent = [@ EXCEPT ![a] = m.parent[b], ![b] = m.parent[a]]]
    IN  IF s.parent[a] = UNINIT \/ s.parent[b] = UNINIT
        THEN [s EXCEPT !.parent = [@ EXCEPT ![a] = UNINIT, ![b] = UNINIT]]
        ELSE IF s.parent[a] = b
        THEN [s EXCEPT !.parent = [@ EXCEPT ![a] = s.parent[b], ![b] = a]]
        ELSE IF s.parent[b] = a
        THEN [s EXCEPT !.parent = [@ EXCEPT ![b] = s.parent[a], ![a] = b]]
        ELSE [s EXCEPT !.parent = [@ EXCEPT ![a] = s.parent[b], ![b] = s.parent[a]]]

\* pq_insert that forgets pq->root when the queue was empty.
pq_insert_no_root(m, node) ==
    IF m.head = NULL
    THEN [m EXCEPT !.head = node, !.tail = node,
                   !.parent = [@ EXCEPT ![node] = NULL],
                   !.next   = [@ EXCEPT ![node] = NULL],
                   !.prev   = [@ EXCEPT ![node] = NULL]]
    ELSE IF m.tail = NULL
    THEN Fault(m, "null_deref")
    ELSE [m EXCEPT !.next = [[@ EXCEPT ![m.tail] = node] EXCEPT ![node] = NULL],
                   !.prev = [@ EXCEPT ![node] = m.tail],
                   !.tail = node]

pq_insert(m, node) ==
    IF m.head = NULL
    THEN [m EXCEPT !.head = node, !.tail = node, !.root = node,
                   !.parent = [@ EXCEPT ![node] = NULL],
                   !.next   = [@ EXCEPT ![node] = NULL],
                   !.prev   = [@ EXCEPT ![node] = NULL]]
    ELSE IF m.tail = NULL
    THEN Fault(m, "null_deref")                    \* pq->tail->next = node
    ELSE [m EXCEPT !.next = [[@ EXCEPT ![m.tail] = node] EXCEPT ![node] = NULL],
                   !.prev = [@ EXCEPT ![node] = m.tail],
                   !.tail = node]

\* pq_peek that answers with the head of the list.
pq_peek_head(m) == m.head

pq_peek(m) == m.root

\* The queue after pq_pop; the node it returns is pq_pop_result(m).
pq_pop(m) ==
    IF m.head = NULL THEN m
    ELSE IF m.head = m.tail
    THEN [m EXCEPT !.head = NULL, !.tail = NULL, !.root = NULL]
    ELSE IF m.tail = NULL
    THEN Fault([m EXCEPT !.root = NULL], "null_deref")   \* pq->tail->prev
    ELSE LET t  == m.tail
             tp == m.prev[t]
             n1 == IF tp # NULL THEN [m.next EXCEPT ![tp] = NULL] ELSE m.next
         IN  [m EXCEPT !.root = t,
                       !.tail = tp,
                       !.next = [n1 EXCEPT ![t] = NULL],
                       !.prev = [@ EXCEPT ![t] = NULL]]

pq_pop_result(m) == IF m.head = NULL THEN NULL ELSE m.root

Links(m) == <<m.next, m.prev, m.parent>>

\* while (1) of pq_reorder; `current` never changes, so the loop runs forever
\* exactly when the links repeat.
RECURSIVE reorder_loop(_, _, _)
reorder_loop(m, current, seen) ==
    IF Links(m) \in seen THEN Fault(m, "hang_reorder")
    ELSE
    LET nx == m.next[current]
        l1 == IF nx # NULL /\ timer_compare(m, nx, current) > 0 THEN nx ELSE current
        pv == m.prev[current]
        largest == IF pv # NULL /\ timer_compare(m, pv, l1) > 0 THEN pv ELSE l1
    IN  IF largest = current THEN m
        ELSE reorder_loop(swap_nodes(m, current, largest), current,
                          seen \cup {Links(m)})

\* pq_reorder without the early return on an empty queue.
pq_reorder_unguarded(m) ==
    IF m.root = NULL THEN Fault(m, "null_deref")
    ELSE reorder_loop(m, m.root, {})

pq_reorder(m) ==
    IF m.head = NULL THEN m
    ELSE IF m.root = NULL THEN Fault(m, "null_deref")    \* current->next
    ELSE reorder_loop(m, m.root, {})

\* -EINVAL is returned as -22 (errno.h).
EINVAL == 22

\* Pointer arguments: &timer_queue or NULL, timer_compare or NULL.
PQ == 1
CMP == 1
PqArg == {NULL, PQ}
CompareArg == {NULL, CMP}

\* pq_init that forgets to check the comparator.
pq_init_ret_lax(pq, cmp) == IF pq = NULL THEN -EINVAL ELSE 0

\* The value pq_init returns; it writes the queue exactly when that is 0.
pq_init_ret(pq, cmp) == IF pq = NULL \/ cmp = NULL THEN -EINVAL ELSE 0

pq_init(m, pq, cmp) ==
    IF pq_init_ret(pq, cmp) # 0 THEN m
    ELSE [m EXCEPT !.head = NULL, !.tail = NULL, !.root = NULL]

\* The value pq_insert returns; the insertion is made exactly when that is 0.
pq_insert_ret(pq, node) == IF pq = NULL \/ node = NULL THEN -EINVAL ELSE 0

\* ---- ping_pong_buffer.h ---------------------------------------------------
EAGAIN == 11

Bytes == 0..MaxByte

\* The byte strings a caller passes: every length up to one more than fits.
RECURSIVE Strings(_)
Strings(n) ==
    IF n = 0 THEN {<<>>}
    ELSE LET S == Strings(n - 1)
         IN  S \cup {Append(d, b) : d \in {x \in S : Len(x) = n - 1}, b \in Bytes}

\* An array of n bytes that was never written.
Unwritten(n) == [i \in 1..n |-> UNINIT]

\* x ^ 1 on an index that is 0 or 1
xor1(x) == 1 - x

ping_pong_buffer_init(buffer1, buffer2, size) ==
    [buffers |-> <<buffer1, buffer2>>, size |-> size,
     write_index |-> 0, read_index |-> 1]

Idle == [pc |-> "idle", data |-> <<>>, length |-> 0, i |-> 0, buf |-> 0,
         ret |-> 0, follows |-> FALSE]

\* ppb->write_index == ppb->read_index, the test that turns the producer away
write_blocked(b) == b.write_index = b.read_index

\* A consumer that is never turned away.
read_blocked_never(b) == FALSE

\* ppb->write_index != ppb->read_index, the test that turns the consumer away
read_blocked(b) == b.write_index # b.read_index

\* ping_pong_buffer_write up to the copy loop: the two tests, and the choice
\* of the buffer.  C arrays count from 0, the sequences here from 1.
write_begin(data) ==
    /\ producer.pc = "idle"
    /\ producer' =
         IF Len(data) > ppb.size
         THEN [Idle EXCEPT !.data = data, !.length = Len(data), !.ret = -EINVAL]
         ELSE IF write_blocked(ppb)
         THEN [Idle EXCEPT !.data = data, !.length = Len(data), !.ret = -EAGAIN]
         ELSE [pc |-> "copy", data |-> data, length |-> Len(data), i |-> 0,
               buf |-> ppb.write_index, ret |-> 0, follows |-> FALSE]
    /\ op' = IF producer'.pc = "idle"
             THEN <<"ping_pong_buffer_write", producer'.ret>> ELSE op
    /\ UNCHANGED <<ppb, consumer>>

\* write_buffer[i] = data[i]
write_copy ==
    /\ producer.pc = "copy" /\ producer.i < producer.length
    /\ ppb' = [ppb EXCEPT !.buffers[producer.buf + 1][producer.i + 1] =
                              producer.data[producer.i + 1]]
    /\ producer' = [producer EXCEPT !.i = @ + 1]
    /\ UNCHANGED <<consumer, op>>

\* ppb->write_index ^= 1; return 0;
write_swap ==
    /\ producer.pc = "copy" /\ producer.i = producer.length
    /\ ppb' = [ppb EXCEPT !.write_index = xor1(@)]
    /\ producer' = [producer EXCEPT !.pc = "idle", !.ret = 0]
    /\ op' = <<"ping_pong_buffer_write", 0>>
    /\ UNCHANGED consumer

\* ping_pong_buffer_read up to the copy loop.  `follows` notes that the call
\* before this one was a ping_pong_buffer_write that returned 0.
read_begin(length) ==
    /\ consumer.pc = "idle"
    /\ consumer' =
         IF length > ppb.size
         THEN [Idle EXCEPT !.length = length, !.ret = -EINVAL]
         ELSE IF read_blocked(ppb)
         THEN [Idle EXCEPT !.length = length, !.ret = -EAGAIN]
         ELSE [pc |-> "copy", data |-> <<>>, length |-> length, i |-> 0,
               buf |-> ppb.read_index, ret |-> 0,
               follows |-> (op = <<"ping_pong_buffer_write", 0>>)]
    /\ op' = IF consumer'.pc = "idle"
             THEN <<"ping_pong_buffer_read", consumer'.ret>> ELSE op
    /\ UNCHANGED <<ppb, producer>>

\* data[i] = read_buffer[i]
read_copy ==
    /\ consumer.pc = "copy" /\ consumer.i < consumer.length
    /\ consumer' = [consumer EXCEPT
                       !.data = Append(@, ppb.buffers[consumer.buf + 1][consumer.i + 1]),
                       !.i = @ + 1]
    /\ UNCHANGED <<ppb, producer, op>>

\* ppb->read_index ^= 1; return 0;
read_swap ==
    /\ consumer.pc = "copy" /\ consumer.i = consumer.length
    /\ ppb' = [ppb EXCEPT !.read_index = xor1(@)]
    /\ consumer' = [consumer EXCEPT !.pc = "idle", !.ret = 0]
    /\ op' = <<"ping_pong_buffer_read", 0>>
    /\ UNCHANGED producer

\* ---- ring_buffer.h ----------------------------------------------------------
ENOBUFS == 105

\* Bits of the words the index arithmetic is evaluated on; the operands here
\* are far smaller, so the width does not show in the result.
WordBits == 16

\* a & b on non-negative integers
RECURSIVE band(_, _)
band(a, b) ==
    IF a = 0 \/ b = 0 THEN 0
    ELSE (a % 2) * (b % 2) + 2 * band(a \div 2, b \div 2)

\* while (value & (value - 1)) value &= value - 1;
RECURSIVE round_down_to_power_of_two(_)
round_down_to_power_of_two(value) ==
    IF value = 0 THEN 0
    ELSE IF band(value, value - 1) # 0
         THEN round_down_to_power_of_two(band(value, value - 1))
         ELSE value

\* `buffer` is the caller's array of `size` bytes.  rb->size - 1 is computed
\* on uint32_t; it does not wrap here because sizes start at 1.
ring_buffer_init(buffer, size) ==
    [buffer |-> buffer, size |-> round_down_to_power_of_two(size),
     head |-> 0, tail |-> 0]

\* A ring buffer that is never full.
ring_buffer_is_full_never(r) == FALSE

ring_buffer_is_full(r) == band(r.head + 1, r.size - 1) = r.tail

ring_buffer_is_empty(r) == r.head = r.tail

\* The value ring_buffer_push returns, and the ring buffer after it.
ring_buffer_push_ret(r, byte) == IF ring_buffer_is_full(r) THEN -ENOBUFS ELSE 0

ring_buffer_push(r, byte) ==
    IF ring_buffer_is_full(r) THEN r
    ELSE [r EXCEPT !.buffer[r.head + 1] = byte,
                   !.head = band(r.head + 1, r.size - 1)]

\* The value ring_buffer_pop returns, the byte it stores, the ring buffer after.
ring_buffer_pop_ret(r) == IF ring_buffer_is_empty(r) THEN -EAGAIN ELSE 0

ring_buffer_pop_byte(r) == r.buffer[r.tail + 1]

ring_buffer_pop(r) ==
    IF ring_buffer_is_empty(r) THEN r
    ELSE [r EXCEPT !.tail = band(r.tail + 1, r.size - 1)]

\* The free space counted without the slot that is kept empty.
ring_buffer_free_space_all(r) ==
    r.size - band((r.head - r.tail + 2 ^ WordBits) % (2 ^ WordBits), r.size - 1)

\* (rb->size - ((rb->head - rb->tail) & (rb->size - 1))) - 1, on uint32_t: the
\* difference wraps when head < tail, and its low bits are those of the
\* difference plus 2^WordBits.
ring_buffer_free_space(r) ==
    (r.size - band((r.head - r.tail + 2 ^ WordBits) % (2 ^ WordBits), r.size - 1)) - 1

\* for (i = 0; i < length; i++) { rb->buffer[rb->head] = stream[i]; ... }
RECURSIVE copy_loop(_, _, _)
copy_loop(r, stream, i) ==
    IF i > Len(stream) THEN r
    ELSE copy_loop([r EXCEPT !.buffer[r.head + 1] = stream[i],
                             !.head = band(r.head + 1, r.size - 1)],
                   stream, i + 1)

\* The value ring_buffer_copy_from_stream returns, and the ring buffer after.
ring_buffer_copy_from_stream_ret(r, stream) ==
    IF Len(stream) > ring_buffer_free_space(r) THEN -ENOBUFS ELSE Len(stream)

ring_buffer_copy_from_stream(r, stream) ==
    IF Len(stream) > ring_buffer_free_space(r) THEN r
    ELSE copy_loop(r, stream, 1)

\* ---- fixed_message_queue.h ---------------------------------------------------
\* ~x
bnot(x) == (2 ^ WordBits - 1) - x

\* #define ROUND_DOWN_POWER_OF_TWO(x) ((x) & ~((x) - 1))
ROUND_DOWN_POWER_OF_TWO(x) == band(x, bnot(x - 1))

\* DECLARE_MESSAGE_QUEUE_BUFFER(slots, message_size): the array it declares
DECLARE_MESSAGE_QUEUE_BUFFER(slots, message_size) ==
    Unwritten(ROUND_DOWN_POWER_OF_TWO(slots) * message_size)

message_queue_init(buffer, slot_size, slot_count) ==
    [buffer |-> buffer, slot_size |-> slot_size,
     slot_count |-> round_down_to_power_of_two(slot_count),
     head |-> 0, tail |-> 0]

message_queue_is_full(q) == band(q.head + 1, q.slot_count - 1) = q.tail

\* The bytes slot[0..slot_size-1] of the slot at `index` lie in the array.
slot_in_buffer(q, index) == (index + 1) * q.slot_size <= Len(q.buffer)

\* for (i < slot_size) slot[i] = data[i], with slot = &buffer[head * slot_size]
message_queue_push(q, data) ==
    [q EXCEPT !.buffer = [k \in 1..Len(q.buffer) |->
                             IF k > q.head * q.slot_size
                                /\ k <= (q.head + 1) * q.slot_size
                             THEN data[k - q.head * q.slot_size]
                             ELSE q.buffer[k]],
              !.head = band(q.head + 1, q.slot_count - 1)]

\* for (i < slot_size) data[i] = slot[i], with slot = &buffer[tail * slot_size]
message_queue_peek(q) ==
    [i \in 1..q.slot_size |-> q.buffer[q.tail * q.slot_size + i]]

\* ---- intrusive_list.h, over a record l of the list head and the nodes ---
\* l has the fields head, tail (struct list_head) and next, prev (the
\* struct list_node of every node).
list_init(l) == [l EXCEPT !.head = NULL, !.tail = NULL]

list_append(l, node) ==
    LET l1 == [l EXCEPT !.next[node] = NULL, !.prev[node] = l.tail]
        l2 == IF l1.tail # NULL
              THEN [l1 EXCEPT !.next[l1.tail] = node]
              ELSE [l1 EXCEPT !.head = node]
    IN  [l2 EXCEPT !.tail = node]

list_prepend(l, node) ==
    LET l1 == [l EXCEPT !.prev[node] = NULL, !.next[node] = l.head]
        l2 == IF l1.head # NULL
              THEN [l1 EXCEPT !.prev[l1.head] = node]
              ELSE [l1 EXCEPT !.tail = node]
    IN  [l2 EXCEPT !.head = node]

list_is_empty(l) == l.head = NULL

\* list_remove has the node only: it never reads or writes list->head and
\* list->tail.
list_remove(l, node) ==
    LET l1 == IF l.prev[node] # NULL
              THEN [l EXCEPT !.next[l.prev[node]] = l.next[node]]
              ELSE l
        l2 == IF l1.next[node] # NULL
              THEN [l1 EXCEPT !.prev[l1.next[node]] = l1.prev[node]]
              ELSE l1
    IN  [l2 EXCEPT !.prev[node] = NULL, !.next[node] = NULL]

\* list_for_each_safe(list, node, tmp) { list_remove(node); }: tmp is read
\* before the body runs.
RECURSIVE remove_each(_, _, _)
remove_each(l, node, tmp) ==
    IF node = NULL THEN l
    ELSE LET l1 == list_remove(l, node)
         IN  remove_each(l1, tmp, IF tmp # NULL THEN l1.next[tmp] ELSE NULL)

list_for_each_safe_remove(l) ==
    remove_each(l, l.head, IF l.head # NULL THEN l.next[l.head] ELSE NULL)


\* ---- the memory as a record, and back ------------------------------------
Mem == [head |-> head, tail |-> tail, root |-> root,
        next |-> next, prev |-> prev, parent |-> parent,
        expiry |-> expiry, fault |-> fault,
        status |-> status, fired |-> fired]

Store(m) ==
    /\ head' = m.head /\ tail' = m.tail /\ root' = m.root
    /\ next' = m.next /\ prev' = m.prev /\ parent' = m.parent
    /\ expiry' = m.expiry /\ fault' = m.fault
    /\ status' = m.status /\ fired' = m.fired

\* ---- timer.c --------------------------------------------------------------
armed(t) == status[t] = "armed"

NoStart == [timer |-> NULL, at |-> 0, ticks |-> 0, periodic |-> FALSE,
            restart |-> FALSE, n |-> 0, quiet |-> FALSE]

\* timer_module_init, and timer_init of every timer (the nodes stay unwritten).
Init ==
    /\ global_ticks = 0
    /\ head = NULL /\ tail = NULL /\ root = NULL
    /\ next = [t \in Nodes |-> UNINIT]
    /\ prev = [t \in Nodes |-> UNINIT]
    /\ parent = [t \in Nodes |-> UNINIT]
    /\ expiry = [t \in Nodes |-> 0]
    /\ period = [t \in Timers |-> 0]
    /\ fault = "none"
    /\ op = <<"timer_module_init", NULL>>
    /\ fired = <<>>
    /\ status = [t \in Nodes |-> "idle"]
    /\ last = NoStart
    /\ count = [t \in Timers |-> 0]
    /\ calls = 0
    /\ compare = CMP
    /\ ppb = ping_pong_buffer_init(Unwritten(PpbSize), Unwritten(PpbSize), PpbSize)
    /\ producer = Idle
    /\ consumer = Idle
    /\ rb = [buffer |-> <<>>, size |-> 0, head |-> 0, tail |-> 0]
    /\ stored = <<>>
    /\ mq = [buffer |-> <<>>, slot_size |-> 0, slot_count |-> 0,
             head |-> 0, tail |-> 0]
    /\ queued = <<>>
    /\ list = [head |-> UNINIT, tail |-> UNINIT,
               next |-> [n \in ListNodes |-> UNINIT],
               prev |-> [n \in ListNodes |-> UNINIT]]
    /\ linked = {}

\* timer->callback and timer->data are the caller's and not part of the state.
timer_init(timer) ==
    /\ fault = "none"
    /\ expiry' = [expiry EXCEPT ![timer] = 0]
    /\ period' = [period EXCEPT ![timer] = 0]
    /\ last' = [last EXCEPT !.quiet = FALSE]
    /\ op' = <<"timer_init", timer>>
    /\ fired' = <<>>
    /\ UNCHANGED <<global_ticks, head, tail, root, next, prev, parent, fault, status>>

timer_start(timer, ticks, periodic) ==
    /\ fault = "none"
    /\ LET m0 == [Mem EXCEPT !.expiry = [@ EXCEPT ![timer] = global_ticks + ticks],
                             !.status = [@ EXCEPT ![timer] = "armed"],
                             !.fired  = <<>>]
       IN  Store(pq_reorder(pq_insert(m0, timer)))
    /\ period' = [period EXCEPT ![timer] = IF periodic THEN ticks ELSE 0]
    /\ last' = [timer |-> timer, at |-> global_ticks, ticks |-> ticks,
                periodic |-> periodic, restart |-> armed(timer), n |-> 0,
                quiet |-> TRUE]
    /\ op' = <<"timer_start", timer>>
    /\ UNCHANGED global_ticks

\* timer_set_period that also moves the current deadline.
timer_set_period_retro(timer, ticks) ==
    /\ fault = "none"
    /\ period' = [period EXCEPT ![timer] = ticks]
    /\ expiry' = [expiry EXCEPT ![timer] = global_ticks + ticks]
    /\ last' = [last EXCEPT !.quiet = FALSE]
    /\ op' = <<"timer_set_period", timer, ticks>>
    /\ fired' = <<>>
    /\ UNCHANGED <<global_ticks, head, tail, root, next, prev, parent,
                   fault, status>>

timer_set_period(timer, ticks) ==
    /\ fault = "none"
    /\ period' = [period EXCEPT ![timer] = ticks]
    /\ last' = [last EXCEPT !.quiet = FALSE]
    /\ op' = <<"timer_set_period", timer, ticks>>
    /\ fired' = <<>>
    /\ UNCHANGED <<global_ticks, head, tail, root, next, prev, parent, expiry,
                   fault, status>>

\* pq_remove is called by timer_stop but defined nowhere in the sources; this
\* is the removal the specification describes: the node is detached from both
\* list links, head/tail/root are updated if the node held the role, and
\* membership is not validated.
pq_remove(m, node) ==
    LET p  == m.prev[node]
        n  == m.next[node]
        n1 == IF p # NULL THEN [m.next EXCEPT ![p] = n] ELSE m.next
        p1 == IF n # NULL THEN [m.prev EXCEPT ![n] = p] ELSE m.prev
        h  == IF m.head = node THEN n ELSE m.head
    IN  [m EXCEPT !.head = h,
                  !.tail = IF m.tail = node THEN p ELSE @,
                  !.root = IF m.root = node THEN h ELSE @,
                  !.next = [n1 EXCEPT ![node] = NULL],
                  !.prev = [p1 EXCEPT ![node] = NULL]]

timer_stop(timer) ==
    /\ fault = "none"
    /\ Store(pq_remove([Mem EXCEPT !.status = [@ EXCEPT ![timer] =
                                       IF armed(timer) /\ expiry[timer] > global_ticks
                                       THEN "stopped" ELSE "stopped_other"],
                                   !.fired = <<>>], timer))
    /\ last' = [last EXCEPT !.quiet = FALSE]
    /\ op' = <<"timer_stop", timer>>
    /\ UNCHANGED <<global_ticks, period>>

\* next_timer->callback(next_timer, next_timer->data): the callback is the
\* caller's; the model records the invocation.
callback(m, timer) ==
    [m EXCEPT !.fired  = Append(@, <<timer, m.status[timer], m.expiry[timer]>>),
              !.status = [@ EXCEPT ![timer] =
                             IF period[timer] = 0 /\ @ = "armed" THEN "fired" ELSE @]]

\* The loop condition off by one: a timer is taken one tick before its expiry.
due_early(m, timer, g) == m.expiry[timer] <= g + 1

\* The loop condition with < for <=: a timer due exactly now is left queued.
due_strict(m, timer, g) == m.expiry[timer] < g

\* next_timer->expiry <= global_ticks
due(m, timer, g) == m.expiry[timer] <= g

\* The re-arm counted from the current tick instead of from the old expiry.
rearm_from_now(m, timer, g) ==
    [m EXCEPT !.expiry = [@ EXCEPT ![timer] = g + period[timer]]]

\* next_timer->expiry += next_timer->period
rearm(m, timer, g) ==
    [m EXCEPT !.expiry = [@ EXCEPT ![timer] = @ + period[timer]]]

Memory(m) == <<m.head, m.tail, m.root, m.next, m.prev, m.parent, m.expiry>>

\* while (node && next_timer->expiry <= global_ticks) of timer_increment_tick.
\* The return value of pq_pop is not used: the callback invoked is the one of
\* the node pq_peek returned.  The loop runs forever exactly when the memory
\* repeats at its head.
RECURSIVE drain_loop(_, _, _)
drain_loop(m, g, seen) ==
    LET node == pq_peek(m) IN
    IF m.fault # "none" THEN m
    ELSE IF node = NULL \/ ~due(m, node, g) THEN m
    ELSE IF Memory(m) \in seen THEN Fault(m, "hang_drain")
    ELSE LET p == pq_pop(m) IN
         IF p.fault # "none" THEN p
         ELSE LET c == callback(p, node)
                  r == IF period[node] # 0
                       THEN pq_insert(rearm(c, node, g), node)
                       ELSE c
              IN  drain_loop(r, g, seen \cup {Memory(m)})

\* A tick that advances the clock by two.
next_tick_skip(g) == g + 2

\* global_ticks++
next_tick(g) == g + 1

Times(f, t) == Cardinality({i \in 1..Len(f) : f[i][1] = t})

timer_increment_tick ==
    /\ fault = "none"
    /\ global_ticks' = next_tick(global_ticks)
    /\ LET d == drain_loop([Mem EXCEPT !.fired = <<>>], next_tick(global_ticks), {})
       IN  Store(IF d.fault # "none" THEN d ELSE pq_reorder(d))
    /\ last' = [last EXCEPT !.n = @ + Times(fired', last.timer)]
    /\ op' = <<"timer_increment_tick", NULL>>
    /\ UNCHANGED period

\* ---- specifications -------------------------------------------------------
\* The caller arms timers that are not armed and advances time.
Start == \E t \in Timers, d \in Delays, p \in BOOLEAN :
            ~armed(t) /\ timer_start(t, d, p) /\ UNCHANGED <<count, calls, rest>>
Tick  == global_ticks < MaxTime /\ timer_increment_tick /\ UNCHANGED <<count, calls, rest>>

Next == Start \/ Tick

Spec == Init /\ [][Next]_vars

\* Spec with timer_increment_tick called again and again (up to MaxTime): the
\* caller's periodic tick source.
\* The steps of Tick are the steps that advance the clock, and Tick can be
\* taken whenever the clock is below MaxTime and the program has not stopped.
Ticked ==
    /\ fault = "none" /\ global_ticks < MaxTime
    /\ global_ticks' = next_tick(global_ticks)

SpecTicking == Init /\ [][Next]_vars /\ WF_global_ticks(Ticked)

\* ... and also stops timers (whose node was written by an earlier timer_start).
Stop == \E t \in Timers :
            next[t] # UNINIT /\ timer_stop(t) /\ UNCHANGED <<count, calls, rest>>

NextStop == Start \/ Tick \/ Stop

SpecStop == Init /\ [][NextStop]_vars

\* ... or starts timers that are still armed ("start or restart").
Restart == \E t \in Timers, d \in Delays, p \in BOOLEAN :
            armed(t) /\ timer_start(t, d, p) /\ UNCHANGED <<count, calls, rest>>

NextRestart == Start \/ Tick \/ Restart

SpecRestart == Init /\ [][NextRestart]_vars

\* The queue used directly: a caller that owns the nodes, gives each a key
\* (the expiry the comparator reads) when it inserts it, and inserts no node
\* that is an element already.  status is "inserted" from a successful
\* pq_insert of the node until pq_pop returns it (then "popped") or pq_init
\* empties the queue (then "idle").  op is <<name, arguments..., result>>.
QueueFrame == UNCHANGED <<global_ticks, period, fired, last, count, calls, buffers>>

PqInit == \E pq \in PqArg, cmp \in CompareArg :
    /\ fault = "none"
    /\ LET rc == pq_init_ret(pq, cmp) IN
        /\ Store([pq_init(Mem, pq, cmp) EXCEPT !.status =
                     IF rc = 0 THEN [t \in Nodes |-> "idle"] ELSE @])
        /\ compare' = IF rc = 0 THEN cmp ELSE compare
        /\ op' = <<"pq_init", pq, cmp, rc>>
    /\ QueueFrame

InsertCall(pq, node, key) ==
    /\ fault = "none"
    /\ node # NULL => status[node] # "inserted"
    /\ LET rc == pq_insert_ret(pq, node) IN
        /\ Store(IF rc # 0 THEN Mem
                 ELSE pq_insert([Mem EXCEPT !.expiry = [@ EXCEPT ![node] = key],
                                            !.status = [@ EXCEPT ![node] = "inserted"]],
                                node))
        /\ op' = <<"pq_insert", pq, node, rc>>

PqInsert == \E pq \in PqArg, node \in NodePtr, key \in Delays :
    InsertCall(pq, node, key) /\ UNCHANGED compare /\ QueueFrame

PopCall(pq) ==
    /\ fault = "none"
    /\ LET res == IF pq = NULL THEN NULL ELSE pq_pop_result(Mem)
            m   == IF pq = NULL THEN Mem ELSE pq_pop(Mem)
        IN  /\ Store(IF res = NULL \/ m.fault # "none" THEN m
                     ELSE [m EXCEPT !.status = [@ EXCEPT ![res] = "popped"]])
            /\ op' = <<"pq_pop", pq, res>>

PqPop == \E pq \in PqArg : PopCall(pq) /\ UNCHANGED compare /\ QueueFrame

PqPeek == \E pq \in PqArg :
    /\ fault = "none"
    /\ op' = <<"pq_peek", pq, IF pq = NULL THEN NULL ELSE pq_peek(Mem)>>
    /\ UNCHANGED <<head, tail, root, next, prev, parent, expiry, fault, status,
                   compare>>
    /\ QueueFrame

ReorderCall(pq) ==
    /\ fault = "none"
    /\ Store(IF pq = NULL THEN Mem ELSE pq_reorder(Mem))
    /\ op' = <<"pq_reorder", pq>>

PqReorder == \E pq \in PqArg : ReorderCall(pq) /\ UNCHANGED compare /\ QueueFrame

NextQueue == PqInit \/ PqInsert \/ PqPop \/ PqPeek \/ PqReorder

SpecQueue == Init /\ [][NextQueue]_vars

\* The same calls on &timer_queue over every node, at most MaxQueueCalls of
\* them.
QueueBudget ==
    /\ calls < MaxQueueCalls /\ calls' = calls + 1
    /\ UNCHANGED <<global_ticks, period, fired, last, count, compare, buffers>>

NodesInsert == \E node \in Nodes, key \in Delays :
    InsertCall(PQ, node, key) /\ QueueBudget

NodesPop == PopCall(PQ) /\ QueueBudget

NodesReorder == ReorderCall(PQ) /\ QueueBudget

NextNodes == NodesInsert \/ NodesPop \/ NodesReorder

SpecNodes == Init /\ [][NextNodes]_vars

\* Every call of the timer module, on any timer, at most MaxCalls calls besides
\* the ticks.
Budget == calls < MaxCalls /\ calls' = calls + 1 /\ UNCHANGED <<count, rest>>

ApiInit  == \E t \in Timers : timer_init(t) /\ Budget
ApiStart == \E t \in Timers, d \in Delays, p \in BOOLEAN :
                timer_start(t, d, p) /\ Budget
ApiStop  == \E t \in Timers : next[t] # UNINIT /\ timer_stop(t) /\ Budget
ApiSetPeriod == \E t \in Timers, d \in Delays : timer_set_period(t, d) /\ Budget

NextApi == ApiInit \/ ApiStart \/ ApiStop \/ ApiSetPeriod \/ Tick

SpecApi == Init /\ [][NextApi]_vars

\* Timers are armed, their periods changed, and time advances.
PeriodSet == \E t \in Timers, d \in Delays : timer_set_period(t, d) /\ Budget

NextPeriod == Start \/ Tick \/ PeriodSet

SpecPeriod == Init /\ [][NextPeriod]_vars

\* The ping-pong buffer with one call at a time (each call runs to its return
\* before the next starts), and with a producer and a consumer interleaved.
PpbFrame == UNCHANGED <<global_ticks, head, tail, root, next, prev, parent,
                        expiry, period, fault, fired, status, last, count,
                        calls, compare, rb_vars, mq_vars, list_vars>>

WriteBegin == \E data \in Strings(PpbSize + 1) : write_begin(data) /\ PpbFrame
WriteCopy  == write_copy /\ PpbFrame
WriteSwap  == write_swap /\ PpbFrame
ReadBegin  == \E length \in 0..(PpbSize + 1) : read_begin(length) /\ PpbFrame
ReadCopy   == read_copy /\ PpbFrame
ReadSwap   == read_swap /\ PpbFrame

NextPpbCalls ==
    \/ consumer.pc = "idle" /\ (WriteBegin \/ WriteCopy \/ WriteSwap)
    \/ producer.pc = "idle" /\ (ReadBegin \/ ReadCopy \/ ReadSwap)

SpecPpbCalls == Init /\ [][NextPpbCalls]_vars

NextPpb == WriteBegin \/ WriteCopy \/ WriteSwap \/ ReadBegin \/ ReadCopy \/ ReadSwap

SpecPpb == Init /\ [][NextPpb]_vars

\* The ring buffer: initialised with any size from 2, then pushed and popped.
\* op is <<name, result>>, for ring_buffer_pop <<name, result, byte>>.
RbFrame == UNCHANGED <<global_ticks, head, tail, root, next, prev, parent,
                       expiry, period, fault, fired, status, last, count,
                       calls, compare, ppb_vars, mq_vars, list_vars>>

RbInit == \E size \in 2..MaxRbSize :
    /\ rb' = ring_buffer_init(Unwritten(size), size)
    /\ stored' = <<>>
    /\ op' = <<"ring_buffer_init", size>>
    /\ RbFrame

RbPush == \E byte \in Bytes :
    /\ rb.size # 0
    /\ rb' = ring_buffer_push(rb, byte)
    /\ stored' = IF ring_buffer_push_ret(rb, byte) = 0 THEN Append(stored, byte)
                 ELSE stored
    /\ op' = <<"ring_buffer_push", ring_buffer_push_ret(rb, byte)>>
    /\ RbFrame

RbPop ==
    /\ rb.size # 0
    /\ rb' = ring_buffer_pop(rb)
    /\ stored' = IF ring_buffer_pop_ret(rb) = 0 /\ stored # <<>> THEN Tail(stored)
                 ELSE stored
    /\ op' = IF ring_buffer_pop_ret(rb) = 0
             THEN <<"ring_buffer_pop", 0, ring_buffer_pop_byte(rb)>>
             ELSE <<"ring_buffer_pop", -EAGAIN>>
    /\ RbFrame

RbCopy == \E stream \in Strings(MaxStream) :
    /\ rb.size # 0
    /\ rb' = ring_buffer_copy_from_stream(rb, stream)
    /\ stored' = IF ring_buffer_copy_from_stream_ret(rb, stream) >= 0
                 THEN stored \o stream ELSE stored
    /\ op' = <<"ring_buffer_copy_from_stream",
               ring_buffer_copy_from_stream_ret(rb, stream), Len(stream)>>
    /\ RbFrame

NextRb == RbInit \/ RbPush \/ RbPop \/ RbCopy

SpecRb == Init /\ [][NextRb]_vars

\* The message queue: a buffer declared with DECLARE_MESSAGE_QUEUE_BUFFER and
\* given to message_queue_init with the same slots and message_size, then
\* pushed, peeked and popped.  An access outside the declared array ends the
\* run with fault "buffer_overflow".
MqFrame == UNCHANGED <<global_ticks, head, tail, root, next, prev, parent,
                       expiry, period, fired, status, last, count,
                       calls, compare, ppb_vars, rb_vars, list_vars>>

MqInit == \E slots \in 1..MaxSlots, message_size \in 1..MaxMsgSize :
    /\ fault = "none"
    /\ mq' = message_queue_init(DECLARE_MESSAGE_QUEUE_BUFFER(slots, message_size),
                                message_size, slots)
    /\ queued' = <<>>
    /\ op' = <<"message_queue_init", slots, message_size>>
    /\ UNCHANGED fault /\ MqFrame

MqPush == \E data \in Strings(MaxMsgSize) :
    /\ fault = "none" /\ mq.slot_count # 0 /\ Len(data) = mq.slot_size
    /\ IF message_queue_is_full(mq)
       THEN /\ op' = <<"message_queue_push", -ENOBUFS>>
            /\ UNCHANGED <<mq, queued, fault>>
       ELSE IF ~slot_in_buffer(mq, mq.head)
       THEN /\ fault' = "buffer_overflow"
            /\ op' = <<"message_queue_push", 0>>
            /\ UNCHANGED <<mq, queued>>
       ELSE /\ mq' = message_queue_push(mq, data)
            /\ queued' = Append(queued, data)
            /\ op' = <<"message_queue_push", 0>>
            /\ UNCHANGED fault
    /\ MqFrame

\* message_queue_peek, and message_queue_pop (advance = TRUE), which is a
\* peek followed by mq->tail = (mq->tail + 1) & (mq->slot_count - 1).
MqPeekPop == \E advance \in BOOLEAN :
    /\ fault = "none" /\ mq.slot_count # 0
    /\ LET name == IF advance THEN "message_queue_pop" ELSE "message_queue_peek" IN
       IF mq.head = mq.tail
       THEN /\ op' = <<name, -EAGAIN>>
            /\ UNCHANGED <<mq, queued, fault>>
       ELSE IF ~slot_in_buffer(mq, mq.tail)
       THEN /\ fault' = "buffer_overflow"
            /\ op' = <<name, 0>>
            /\ UNCHANGED <<mq, queued>>
       ELSE /\ op' = <<name, 0, message_queue_peek(mq)>>
            /\ mq' = IF advance
                     THEN [mq EXCEPT !.tail = band(mq.tail + 1, mq.slot_count - 1)]
                     ELSE mq
            /\ queued' = IF advance /\ queued # <<>> THEN Tail(queued) ELSE queued
            /\ UNCHANGED fault
    /\ MqFrame

NextMq == MqInit \/ MqPush \/ MqPeekPop

SpecMq == Init /\ [][NextMq]_vars

\* The intrusive list: list_init, then nodes appended or prepended (a node
\* not in the list at the call) and removed (a node in the list at the call),
\* one by one or by the README's list_for_each_safe loop.
ListFrame == UNCHANGED <<global_ticks, head, tail, root, next, prev, parent,
                         expiry, period, fault, fired, status, last, count,
                         calls, compare, ppb_vars, rb_vars, mq_vars>>

ListInit ==
    /\ list' = list_init(list)
    /\ linked' = {}
    /\ op' = <<"list_init", NULL>>
    /\ ListFrame

ListAppend == \E node \in ListNodes \ linked :
    /\ list.head # UNINIT
    /\ list' = list_append(list, node)
    /\ linked' = linked \cup {node}
    /\ op' = <<"list_append", node>>
    /\ ListFrame

ListPrepend == \E node \in ListNodes \ linked :
    /\ list.head # UNINIT
    /\ list' = list_prepend(list, node)
    /\ linked' = linked \cup {node}
    /\ op' = <<"list_prepend", node>>
    /\ ListFrame

ListRemove == \E node \in linked :
    /\ list' = list_remove(list, node)
    /\ linked' = linked \ {node}
    /\ op' = <<"list_remove", node>>
    /\ ListFrame

ListRemoveEach ==
    /\ list.head # UNINIT
    /\ list' = list_for_each_safe_remove(list)
    /\ linked' = {}
    /\ op' = <<"list_for_each_safe", NULL>>
    /\ ListFrame

NextList == ListInit \/ ListAppend \/ ListPrepend \/ ListRemove \/ ListRemoveEach

SpecList == Init /\ [][NextList]_vars

\* The README example: timer_module_init(); timer_start(&t1, 100, false);
\* timer_start(&t2, 50, true); then 200 times timer_increment_tick().
TimerA == 1
TimerB == 2
OneShotTicks == 100
PeriodicTicks == 50
ScenarioTicks == 200

Tally == [t \in Timers |-> count[t] + Times(fired', t)]

ScenarioStartA ==
    /\ op[1] = "timer_module_init"
    /\ timer_start(TimerA, OneShotTicks, FALSE) /\ UNCHANGED <<count, calls, rest>>
ScenarioStartB ==
    /\ op = <<"timer_start", TimerA>>
    /\ timer_start(TimerB, PeriodicTicks, TRUE) /\ UNCHANGED <<count, calls, rest>>
ScenarioTick ==
    /\ op = <<"timer_start", TimerB>> \/ op[1] = "timer_increment_tick"
    /\ global_ticks < ScenarioTicks
    /\ timer_increment_tick /\ count' = Tally /\ UNCHANGED <<calls, rest>>

ScenarioNext == ScenarioStartA \/ ScenarioStartB \/ ScenarioTick

ScenarioSpec == Init /\ [][ScenarioNext]_vars

\* ---- properties -------------------------------------------------------------
Returned(name) == op[1] = name /\ fault = "none"

\* The nodes the queue holds: head, tail, root and what their links reach.
RECURSIVE Closure(_)
Closure(S) ==
    LET T == (S \cup {next[x] : x \in S} \cup {prev[x] : x \in S}) \ {NULL, UNINIT}
    IN  IF T = S THEN S ELSE Closure(T)

Queued == Closure({head, tail, root} \ {NULL})

\* C1: after every return of timer_increment_tick every armed timer has
\* expiry > global_ticks (all elapsed timers were fired during the tick).
C1_NoArmedTimerOverdue ==
    Returned("timer_increment_tick") =>
        \A t \in Timers : armed(t) => expiry[t] > global_ticks

\* The most recent timer_start armed an unarmed timer as one-shot / periodic
\* with ticks >= 1, and only timer_increment_tick was called since.
LastOneShot == /\ last.timer # NULL /\ ~last.periodic /\ ~last.restart
               /\ last.quiet /\ last.ticks >= 1
LastPeriodic == /\ last.timer # NULL /\ last.periodic /\ ~last.restart
                /\ last.quiet /\ last.ticks >= 1

\* C2: timer_start(t, ticks, false) on an unarmed timer followed by exactly
\* `ticks` calls of timer_increment_tick invokes t's callback exactly once, in
\* the call that makes global_ticks = (global_ticks at the start) + ticks.
C2_OneShotFiresOnceOnTime ==
    (Returned("timer_increment_tick") /\ LastOneShot
        /\ global_ticks = last.at + last.ticks)
    => (last.n = 1 /\ Times(fired, last.timer) = 1)

\* C3: a periodic timer started with period p >= 1 and not stopped or
\* restarted has been invoked exactly N times after N*p calls of
\* timer_increment_tick.
C3_PeriodicFiresNTimes ==
    (Returned("timer_increment_tick") /\ LastPeriodic
        /\ (global_ticks - last.at) % last.ticks = 0)
    => last.n = (global_ticks - last.at) \div last.ticks

\* C4: in the README scenario the periodic timer B is first invoked during
\* the 50th tick, before the one-shot A is ever invoked; A is invoked during
\* the 100th tick; B also during the 100th, 150th and 200th tick.
C4_ScenarioOrder ==
    Returned("timer_increment_tick") =>
        /\ global_ticks = PeriodicTicks =>
              (Times(fired, TimerB) = 1 /\ count[TimerB] = 1 /\ count[TimerA] = 0)
        /\ global_ticks = OneShotTicks =>
              (Times(fired, TimerA) = 1 /\ Times(fired, TimerB) = 1)
        /\ global_ticks \in {3 * PeriodicTicks, ScenarioTicks} =>
              Times(fired, TimerB) = 1

\* C5: in the README scenario the 200 calls of timer_increment_tick all
\* return, and after them A was invoked exactly once, B exactly four times,
\* and global_ticks is 200.
C5_ScenarioTotals ==
    /\ fault = "none"
    /\ global_ticks = ScenarioTicks => (count[TimerA] = 1 /\ count[TimerB] = 4)

C5_Witness ==
    /\ Returned("timer_increment_tick") /\ global_ticks = ScenarioTicks
    /\ count[TimerA] = 1 /\ count[TimerB] = 4

\* C6: a timer never fires early: every callback timer_increment_tick invokes
\* is the callback of a timer whose expiry is <= global_ticks.
C6_NeverFiresEarly ==
    \A i \in 1..Len(fired) : fired[i][3] <= global_ticks

\* A tick that invoked a callback exactly when the deadline was reached, and
\* one that invoked the callback of a periodic timer at a re-armed deadline.
C6_Witness ==
    /\ Returned("timer_increment_tick")
    /\ \E i \in 1..Len(fired) :
          /\ fired[i][3] = global_ticks
          /\ period[fired[i][1]] # 0
          /\ fired[i][3] > last.at + last.ticks

\* C7: pq_peek/pq_pop yield the timer with the least expiry of all armed
\* timers, after any sequence of timer_start and timer_increment_tick.
C7_RootIsEarliestArmed ==
    (fault = "none" /\ \E t \in Timers : armed(t)) =>
        /\ pq_peek(Mem) # NULL
        /\ \A t \in Timers : armed(t) => expiry[pq_peek(Mem)] <= expiry[t]

\* C8: a timer's node is held by the timer queue if and only if the timer is
\* armed.
C8_QueuedIffArmed ==
    fault = "none" => \A t \in Timers : (t \in Queued) <=> armed(t)

\* C9: a timer stopped while armed and not yet due is removed from the queue
\* and its callback is not invoked until it is started again; timer_stop of a
\* one-shot timer that has already fired changes nothing.
C9_StoppedIsRemoved ==
    fault = "none" => \A t \in Timers : status[t] = "stopped" => t \notin Queued

C9_StoppedNeverFires ==
    \A i \in 1..Len(fired) : fired[i][2] # "stopped"

C9_StopAfterFiringChangesNothing ==
    [][(op'[1] = "timer_stop" /\ status[op'[2]] = "fired")
          => UNCHANGED <<global_ticks, head, tail, root, next, prev, parent,
                         expiry, period, fault>>]_vars

C9_Stop ==
    /\ [](C9_StoppedIsRemoved /\ C9_StoppedNeverFires)
    /\ C9_StopAfterFiringChangesNothing

\* C10: timer_start on an armed timer reschedules it: its next callback is
\* invoked in the timer_increment_tick call that makes global_ticks =
\* (global_ticks at the restart) + ticks, not before, and once.
C10_RestartReschedules ==
    (Returned("timer_increment_tick") /\ last.timer # NULL /\ last.restart
        /\ last.quiet /\ last.ticks >= 1)
    => /\ global_ticks < last.at + last.ticks => last.n = 0
       /\ global_ticks = last.at + last.ticks =>
             (last.n = 1 /\ Times(fired, last.timer) = 1)

\* C11: global_ticks is 0 after timer_module_init, grows by exactly one in
\* every call of timer_increment_tick and is left unchanged by timer_init,
\* timer_start, timer_stop and timer_set_period.
C11_TicksCountCalls ==
    /\ [](op[1] = "timer_module_init" => global_ticks = 0)
    /\ [][IF op'[1] = "timer_increment_tick"
          THEN global_ticks' = global_ticks + 1
          ELSE op'[1] \in {"timer_init", "timer_start", "timer_stop",
                           "timer_set_period"} /\ global_ticks' = global_ticks]_vars

C11_Witness ==
    /\ global_ticks >= 2
    /\ op[1] = "timer_set_period"
    /\ \E t \in Timers : status[t] \in {"stopped", "stopped_other"}

\* The elements of the queue as its caller counts them.
Inserted == {t \in Nodes : status[t] = "inserted"}

\* The queue and every node link.
QueueState == <<head, tail, root, next, prev, parent, compare>>

\* C12: pq_peek is a pure observation: it changes neither head, tail, root
\* nor any node link, two successive calls return the same node, and the node
\* it returns is the node the next pq_pop returns.
C12_PeekChangesNothing ==
    [][op'[1] = "pq_peek" =>
          /\ UNCHANGED QueueState
          /\ op'[3] = (IF op'[2] = NULL THEN NULL ELSE root)]_vars

C12_PeekTwiceSame ==
    [][(op[1] = "pq_peek" /\ op'[1] = "pq_peek" /\ op[2] = PQ /\ op'[2] = PQ)
          => op'[3] = op[3]]_vars

C12_PeekIsNextPop ==
    [][(op'[1] = "pq_pop" /\ op'[2] = PQ /\ fault' = "none")
          => op'[3] = pq_peek(Mem)]_vars

C12_PeekIsPure ==
    C12_PeekChangesNothing /\ C12_PeekTwiceSame /\ C12_PeekIsNextPop

\* pq_peek returned a node that is not the head of the list.
C12_Witness ==
    /\ Returned("pq_peek") /\ op[2] = PQ
    /\ op[3] # NULL /\ op[3] # head /\ op[3] = pq_pop_result(Mem)

\* C13: when the queue holds exactly one element, pq_pop returns that element
\* and leaves head, tail and root all NULL, so that pq_peek and pq_pop return
\* NULL afterwards.
C13_PopOfSingleton ==
    [][(op'[1] = "pq_pop" /\ op'[2] = PQ /\ Cardinality(Inserted) = 1)
          => /\ fault' = "none"
             /\ op'[3] \in Inserted
             /\ head' = NULL /\ tail' = NULL /\ root' = NULL]_vars

\* C14: pq_init with an absent queue or comparator and pq_insert with an
\* absent queue or node return -EINVAL and change neither head, tail, root,
\* compare nor any node link; every other call of them returns 0.
C14_RejectedCallChangesNothing ==
    [][/\ op'[1] \in {"pq_init", "pq_insert"} =>
             /\ op'[4] = (IF op'[2] = NULL \/ op'[3] = NULL THEN -EINVAL ELSE 0)
             /\ op'[4] # 0 => UNCHANGED QueueState]_vars

\* A rejected pq_init on a queue that holds every node.
C14_Witness ==
    /\ op[1] = "pq_init" /\ op[2] = PQ /\ op[3] = NULL /\ op[4] = -EINVAL
    /\ head # NULL /\ Inserted = Timers

\* C15: on an empty queue (freshly initialised, or all inserted nodes popped)
\* pq_pop and pq_peek return NULL, pq_reorder does nothing, and none of them
\* changes head, tail or root.
C15_EmptyQueueCalls ==
    [][(Inserted = {} /\ op'[1] \in {"pq_pop", "pq_peek", "pq_reorder"})
          => /\ fault' = "none"
             /\ UNCHANGED <<head, tail, root, next, prev, parent>>
             /\ op'[1] # "pq_reorder" => op'[3] = NULL]_vars

\* pq_pop returned NULL on a queue whose nodes were all popped.
C15_Witness ==
    /\ Returned("pq_pop") /\ op[2] = PQ /\ op[3] = NULL
    /\ Inserted = {} /\ \A t \in Timers : status[t] = "popped"

\* C16: timer_set_period(t, ticks) changes only t's period (the expiry of t,
\* the queue and global_ticks stay); the period is read when t fires: the
\* expiry then grows by the period in force, and with period 0 the timer is
\* not armed again and fires no more.
C16_SetPeriodFrame ==
    [][op'[1] = "timer_set_period" =>
          /\ UNCHANGED <<global_ticks, head, tail, root, next, prev, parent,
                         expiry, fault>>
          /\ period' = [period EXCEPT ![op'[2]] = op'[3]]]_vars

\* The invocations of t's callback after the i-th invocation of this tick.
Later(i, t) == {j \in (i + 1)..Len(fired) : fired[j][1] = t}

C16_PeriodReadAtFiring ==
    Returned("timer_increment_tick") =>
        \A i \in 1..Len(fired) :
            LET t == fired[i][1]
                e == fired[i][3]
                l == Later(i, t)
            IN  /\ fired[i][2] = "armed"
                /\ period[t] = 0 => (l = {} /\ expiry[t] = e /\ status[t] = "fired")
                /\ period[t] # 0 =>
                      IF l = {} THEN expiry[t] = e + period[t]
                      ELSE fired[CHOOSE j \in l : \A k \in l : j <= k][3]
                              = e + period[t]

C17_RoundTrip ==
    (op = <<"ping_pong_buffer_read", 0>> /\ consumer.pc = "idle"
        /\ producer.pc = "idle" /\ consumer.follows /\ consumer.length = producer.length)
    => consumer.data = producer.data

\* C18: the producer is never copying into a buffer while the consumer is
\* copying out of the same buffer.
C18_NoSharedBuffer ==
    ~(producer.pc = "copy" /\ consumer.pc = "copy" /\ producer.buf = consumer.buf)

\* The consumer is in the middle of a copy out of the buffer the producer
\* filled last, and the producer is asking for a buffer.
C18_Witness ==
    /\ consumer.pc = "copy" /\ consumer.i = 1 /\ consumer.length = PpbSize
    /\ producer.pc = "idle" /\ producer.ret = -EAGAIN
    /\ ppb.buffers[consumer.buf + 1] # Unwritten(PpbSize)

\* The largest power of two that is <= n, for n >= 1.
IsPowerOfTwo(p) == \E k \in 0..WordBits : p = 2 ^ k
LargestPowerOfTwo(n) ==
    CHOOSE p \in 1..n : IsPowerOfTwo(p) /\ \A q \in (p + 1)..n : ~IsPowerOfTwo(q)

\* C19: the ring buffer is a bounded FIFO: ring_buffer_pop returns the bytes in
\* the order the successful pushes stored them, and -EAGAIN without change when
\* none is stored; ring_buffer_push returns -ENOBUFS without change exactly when
\* (size rounded down to a power of two) - 1 bytes are stored.
C19_Capacity == LargestPowerOfTwo(Len(rb.buffer)) - 1

C19_Push ==
    [][op'[1] = "ring_buffer_push" =>
          IF Len(stored) = C19_Capacity
          THEN op'[2] = -ENOBUFS /\ UNCHANGED <<rb, stored>>
          ELSE op'[2] = 0 /\ Len(stored') = Len(stored) + 1]_vars

C19_Pop ==
    [][op'[1] = "ring_buffer_pop" =>
          IF stored = <<>>
          THEN op'[2] = -EAGAIN /\ UNCHANGED <<rb, stored>>
          ELSE op'[2] = 0 /\ op'[3] = Head(stored)
               /\ UNCHANGED <<rb.buffer, rb.size>>]_vars

C19_BoundedFifo == C19_Push /\ C19_Pop /\ [](rb.size # 0 => Len(stored) <= C19_Capacity)

\* A byte popped after the indices wrapped around, out of a full buffer.
C19_Witness ==
    /\ op[1] = "ring_buffer_pop" /\ op[2] = 0
    /\ rb.size = 4 /\ rb.head < rb.tail
    /\ Len(stored) = C19_Capacity - 1
    /\ op[3] # stored[1]

\* C20: for every slots >= 1 ROUND_DOWN_POWER_OF_TWO(slots) is
\* round_down_to_power_of_two(slots), the largest power of two <= slots, so the
\* array DECLARE_MESSAGE_QUEUE_BUFFER declares holds every slot that
\* message_queue_push and message_queue_peek use after message_queue_init.
C20_DeclaredBufferFits ==
    /\ op[1] = "message_queue_init" =>
          /\ ROUND_DOWN_POWER_OF_TWO(op[2]) = round_down_to_power_of_two(op[2])
          /\ round_down_to_power_of_two(op[2]) = LargestPowerOfTwo(op[2])
          /\ Len(mq.buffer) = mq.slot_count * mq.slot_size
    /\ fault # "buffer_overflow"

\* The nodes met from `from` by following the link field f (next or prev) of
\* the list's nodes.
RECURSIVE ListReach(_, _, _)
ListReach(f, from, seen) ==
    IF from \notin ListNodes \/ from \in seen THEN seen
    ELSE ListReach(f, f[from], seen \cup {from})

\* C21: after list_remove(node), node is reachable neither from list->head
\* through next nor from list->tail through prev; so once list_remove has been
\* called on every node of the list, list_is_empty returns true.
C21_ListRemove ==
    /\ op[1] = "list_remove"
         => /\ op[2] \notin ListReach(list.next, list.head, {})
            /\ op[2] \notin ListReach(list.prev, list.tail, {})
    /\ (op[1] \in {"list_remove", "list_for_each_safe"} /\ linked = {})
         => list_is_empty(list)

\* The swaps pq_reorder makes from the links of m before its loop exits;
\* NumNodes + 1 when it never exits.
RECURSIVE reorder_swaps(_, _, _)
reorder_swaps(m, current, seen) ==
    IF Links(m) \in seen THEN NumNodes + 1
    ELSE
    LET nx == m.next[current]
        l1 == IF nx # NULL /\ timer_compare(m, nx, current) > 0 THEN nx ELSE current
        pv == m.prev[current]
        largest == IF pv # NULL /\ timer_compare(m, pv, l1) > 0 THEN pv ELSE l1
        more == reorder_swaps(swap_nodes(m, current, largest), current,
                              seen \cup {Links(m)})
    IN  IF largest = current THEN 0
        ELSE IF more > NumNodes THEN more ELSE 1 + more

\* C22: every call of pq_reorder terminates: in every queue state that
\* pq_insert (of a node that is not an element), pq_pop and pq_reorder reach
\* with the timer comparator, the loop of pq_reorder exits, after at most as
\* many swaps as the queue has nodes.
C22_ReorderTerminates ==
    /\ fault # "hang_reorder"
    /\ (fault = "none" /\ head # NULL /\ root # NULL)
         => reorder_swaps(Mem, root, {}) <= Cardinality(Queued)

\* C23: no operation dereferences a null pointer: in every state reached by
\* timer_module_init followed by timer_start (of unarmed timers) and
\* timer_increment_tick, head, tail and root are all NULL or all non-NULL.
C23_AllNullOrNone ==
    /\ fault # "null_deref"
    /\ \/ head = NULL /\ tail = NULL /\ root = NULL
       \/ head # NULL /\ tail # NULL /\ root # NULL

\* C24: when pq_reorder returns, neither neighbour of the root outranks it:
\* expiry[root] <= expiry[next[root]] and expiry[root] <= expiry[prev[root]]
\* whenever those neighbours exist.
C24_RootLocallyEarliest ==
    (Returned("pq_reorder") /\ op[2] = PQ /\ head # NULL) =>
        /\ next[root] # NULL => expiry[root] <= expiry[next[root]]
        /\ prev[root] # NULL => expiry[root] <= expiry[prev[root]]

\* The nodes met from `from` by following the link field f (next or prev), in
\* order, up to the first NULL or the first node met twice.
RECURSIVE Chain(_, _, _)
Chain(f, from, seen) ==
    IF from \notin Nodes \/ from \in seen THEN <<>>
    ELSE <<from>> \o Chain(f, f[from], seen \cup {from})

\* C25: pq_reorder changes no list position: head, tail, the sequence of
\* nodes from head through next and the sequence from tail through prev are
\* the same before and after the call.
C25_ReorderKeepsList ==
    [][(op'[1] = "pq_reorder" /\ op'[2] = PQ /\ fault' = "none") =>
          /\ head' = head /\ tail' = tail
          /\ Chain(next', head', {}) = Chain(next, head, {})
          /\ Chain(prev', tail', {}) = Chain(prev, tail, {})]_vars

Range(q) == {q[i] : i \in 1..Len(q)}

\* C26: in every state pq_init, pq_insert, pq_pop and pq_reorder reach, root
\* is NULL and the structure is empty, or root is reachable from head through
\* next links.
C26_RootIsListMember ==
    fault = "none" =>
        IF root = NULL THEN head = NULL /\ tail = NULL
        ELSE root \in Range(Chain(next, head, {}))

\* C27: the queue refines a set of nodes (Inserted: inserted and not yet
\* returned).  Over pq_insert(x) with x not an element, pq_pop and pq_reorder,
\* pq_pop returns NULL exactly when the set is empty and otherwise returns
\* one member of it, which is removed: every inserted node is returned once
\* per insertion.  Stated for the calls of pq_pop that return.
C27_PopRefinesSet ==
    [][(op'[1] = "pq_pop" /\ op'[2] = PQ /\ fault' = "none") =>
          /\ op'[3] = NULL <=> Inserted = {}
          /\ op'[3] # NULL => op'[3] \in Inserted /\ Inserted' = Inserted \ {op'[3]}]_vars

\* C28: pq_insert appends at the tail without re-balancing: on an empty queue
\* the node becomes head, tail and root with next, prev and parent NULL; on a
\* non-empty queue it becomes the new tail, linked after the previous tail
\* (old tail's next = node, node's prev = old tail, node's next = NULL), and
\* head and root are unchanged.
C28_InsertAppends ==
    [][(op'[1] = "pq_insert" /\ op'[4] = 0 /\ fault' = "none") =>
          LET node == op'[3] IN
          IF head = NULL
          THEN /\ head' = node /\ tail' = node /\ root' = node
               /\ next'[node] = NULL /\ prev'[node] = NULL /\ parent'[node] = NULL
          ELSE /\ tail' = node
               /\ next'[tail] = node /\ prev'[node] = tail /\ next'[node] = NULL
               /\ head' = head /\ root' = root]_vars

\* C29: pq_pop on a queue with more than one element returns the node that
\* was root before the call (the node pq_peek returned), makes the prior tail
\* the new root and the prior tail's predecessor the new tail; afterwards the
\* returned node is not head, not tail and not linked from any queued node.
C29_PopDetachesRoot ==
    [][(op'[1] = "pq_pop" /\ op'[2] = PQ /\ fault' = "none"
        /\ Cardinality(Inserted) > 1) =>
          /\ op'[3] = pq_peek(Mem)
          /\ root' = tail /\ tail' = prev[tail]
          /\ head' # op'[3] /\ tail' # op'[3]
          /\ \A n \in Inserted' : next'[n] # op'[3] /\ prev'[n] # op'[3]]_vars

\* C30: on every return of timer_increment_tick the root of the timer queue
\* is not due: pq_peek(&timer_queue) is NULL or its timer has expiry >
\* global_ticks; the pq_reorder made after the drain loop leaves the node the
\* loop stopped at as the root.
C30_RootNotDueAfterTick ==
    [][(op'[1] = "timer_increment_tick" /\ fault' = "none") =>
          LET d == drain_loop([Mem EXCEPT !.fired = <<>>], global_ticks', {})
          IN  /\ pq_peek(d) = NULL \/ d.expiry[pq_peek(d)] > global_ticks'
              /\ root' = pq_peek(d)
              /\ root' = NULL \/ expiry'[root'] > global_ticks']_vars

\* A tick has returned after firing a timer; the root it leaves is not due,
\* while another armed timer is.
C30_Witness ==
    /\ Returned("timer_increment_tick") /\ fired # <<>>
    /\ root # NULL /\ expiry[root] > global_ticks
    /\ \E t \in Timers : t # root /\ armed(t) /\ expiry[t] <= global_ticks

\* C31: a one-shot timer fires at most once per arming: once the callback of
\* a timer with period 0 has been invoked, no timer_increment_tick invokes it
\* again unless timer_start is called on the timer again (status "fired" is
\* set by that invocation and left only by timer_start).
C31_OneShotFiresOnce ==
    \A i \in 1..Len(fired) : fired[i][2] # "fired"

\* The callback of t was invoked during the last timer_increment_tick.
Invoked(t) ==
    op[1] = "timer_increment_tick" /\ \E i \in 1..Len(fired) : fired[i][1] = t

\* The clock has reached MaxTime with a timer still at the root of the queue:
\* what later ticks do is beyond the ticks that are followed.
BeyondMaxTime == global_ticks = MaxTime /\ fault = "none" /\ root # NULL

\* C32: no armed timer is lost: while timer_increment_tick keeps being
\* called, every timer armed by timer_start (and never stopped) has its
\* callback invoked eventually, and a periodic timer, which is armed again by
\* each invocation, again and again.  Over the MaxTime ticks that are
\* followed: an armed timer is invoked, or a timer is still at the root when
\* the clock reaches MaxTime.
C32_ArmedTimerFires ==
    \A t \in Timers : armed(t) ~> (Invoked(t) \/ BeyondMaxTime)

\* The nodes the queue holds in the next state.
RECURSIVE ClosureNext(_)
ClosureNext(S) ==
    LET T == (S \cup {next'[x] : x \in S} \cup {prev'[x] : x \in S}) \ {NULL, UNINIT}
    IN  IF T = S THEN S ELSE ClosureNext(T)

QueuedNext == ClosureNext({head', tail', root'} \ {NULL})

\* The memory after one timer_increment_tick made at clock g - 1 on memory m.
tick_memory(m, g) ==
    LET d == drain_loop([m EXCEPT !.fired = <<>>], g, {})
    IN  IF d.fault # "none" THEN d ELSE pq_reorder(d)

\* What the next k calls of timer_increment_tick (and no other call) would do
\* to timer u from memory m at clock g: how often u's callback is invoked in
\* each of them (never again once the program has stopped).
RECURSIVE Invocations(_, _, _, _)
Invocations(u, m, g, k) ==
    IF k = 0 THEN <<>>
    ELSE IF m.fault # "none" THEN <<0>> \o Invocations(u, m, next_tick(g), k - 1)
    ELSE CHOOSE s \in {<<Times(n.fired, u)>> \o Invocations(u, n, next_tick(g), k - 1) :
                          n \in {tick_memory(m, next_tick(g))}} : TRUE

\* The invocations of u in the ticks up to MaxTime, were only ticks to follow.
Schedule(u) == Invocations(u, Mem, global_ticks, MaxTime - global_ticks)

\* C33: timer_start(t, ticks, periodic) affects only t: it sets t's expiry to
\* global_ticks + ticks and t's period to ticks or 0 and adds t to the timer
\* queue; the expiry, the period and the armed and queued status of every
\* other timer are unchanged, and every other armed timer is invoked in the
\* following ticks as it would have been without the call.
C33_StartFrame ==
    [][(op'[1] = "timer_start" /\ fault' = "none") =>
          LET t == op'[2] IN
          /\ expiry'[t] = global_ticks + last'.ticks
          /\ period'[t] = IF last'.periodic THEN last'.ticks ELSE 0
          /\ t \in QueuedNext
          /\ \A u \in Timers \ {t} :
                /\ expiry'[u] = expiry[u] /\ period'[u] = period[u]
                /\ armed(u)' = armed(u)
                /\ (u \in QueuedNext) = (u \in Queued)
                /\ armed(u) => Schedule(u)' = Schedule(u)]_vars

\* The bytes that ring_buffer_pop would deliver from r, oldest first.
RECURSIVE Drained(_)
Drained(r) ==
    IF ring_buffer_is_empty(r) THEN <<>>
    ELSE <<ring_buffer_pop_byte(r)>> \o Drained(ring_buffer_pop(r))

\* C34: ring_buffer_copy_from_stream is all-or-nothing: when length exceeds
\* the free space (size - 1 - stored bytes) it returns -ENOBUFS and leaves
\* head, tail and contents unchanged; otherwise it returns length, and the
\* bytes are popped afterwards in stream order, after the bytes stored before.
C34_CopyStep ==
    [][op'[1] = "ring_buffer_copy_from_stream" =>
          LET length == op'[3] IN
          IF length > C19_Capacity - Len(stored)
          THEN op'[2] = -ENOBUFS /\ UNCHANGED <<rb, stored>>
          ELSE /\ op'[2] = length
               /\ Len(stored') = Len(stored) + length
               /\ Drained(rb') = stored']_vars

C34_AllOrNothing == C34_CopyStep /\ [](rb.size # 0 => Drained(rb) = stored)

\* A stream that exactly fills the free space was copied across the end of
\* the array, behind bytes stored before.
C34_Witness ==
    /\ op[1] = "ring_buffer_copy_from_stream" /\ op[2] >= 2
    /\ Len(stored) = C19_Capacity /\ Len(stored) > op[2]
    /\ rb.head < rb.tail /\ rb.head > 0

NoHangDrain == fault # "hang_drain"
NoHangReorder == fault # "hang_reorder"
NoNullDeref == fault # "null_deref"
====
